---- MODULE Spec2Model ----
(***************************************************************************)
(* Model of main.py: the TradingView webhook handler (_handle_tv), the     *)
(* symbol normaliser (normalize_symbol), the order placement with its      *)
(* recovery lookup (place_market_order_with_fallback) and the two audit    *)
(* tables (trades, webhook_log).                                           *)
(*                                                                         *)
(* Strings the code transforms (action, symbol) are sequences of one       *)
(* character strings, so that upper(), strip(), split() and replace() are  *)
(* computed.  Exception texts are sequences of phrases; Python's           *)
(* `phrase in msg` is membership of the phrase in the sequence.            *)
(* Quantities are counted in thousandths (0.001 is 1, 0.02 is 20).         *)
(***************************************************************************)
EXTENDS Integers, Sequences, FiniteSets, TLC

\* ------------------------------------------------------------------ bounds
\* Largest numeric value (in thousandths) a payload carries in qty/quantity.
MaxQty == 2

\* ----------------------------------------------------------------- strings
Lower == <<"a","b","c","d","e","f","g","h","i","j","k","l","m",
           "n","o","p","q","r","s","t","u","v","w","x","y","z">>
Capital == <<"A","B","C","D","E","F","G","H","I","J","K","L","M",
             "N","O","P","Q","R","S","T","U","V","W","X","Y","Z">>
Whitespace == {" "}

\* str.upper() on one character
UpperChar(c) ==
    IF \E i \in 1..Len(Lower) : Lower[i] = c
    THEN Capital[CHOOSE i \in 1..Len(Lower) : Lower[i] = c]
    ELSE c

\* str.upper()
Upper(s) == [i \in 1..Len(s) |-> UpperChar(s[i])]

RECURSIVE LStrip(_)
LStrip(s) == IF s # <<>> /\ Head(s) \in Whitespace THEN LStrip(Tail(s)) ELSE s

RECURSIVE RStrip(_)
RStrip(s) ==
    IF s # <<>> /\ s[Len(s)] \in Whitespace
    THEN RStrip(SubSeq(s, 1, Len(s) - 1))
    ELSE s

\* str.strip()
Strip(s) == RStrip(LStrip(s))

\* c in s, for a character (or phrase) c
Contains(s, c) == \E i \in 1..Len(s) : s[i] = c

\* s.split(c)[-1]: what follows the last c
AfterLast(s, c) ==
    IF Contains(s, c)
    THEN LET k == CHOOSE i \in 1..Len(s) :
                      s[i] = c /\ \A j \in (i+1)..Len(s) : s[j] # c
         IN SubSeq(s, k + 1, Len(s))
    ELSE s

\* s.replace(c, "")
Without(s, c) == SelectSeq(s, LAMBDA x : x # c)

\* s.endswith(t)
EndsWith(s, t) ==
    Len(s) >= Len(t) /\ SubSeq(s, Len(s) - Len(t) + 1, Len(s)) = t

\* ------------------------------------------------------- symbol normaliser
BTCUSDT == <<"B","T","C","U","S","D","T">>
ETHUSDT == <<"E","T","H","U","S","D","T">>
USD == <<"U","S","D">>
USDT == <<"U","S","D","T">>

ALLOWED_SYMBOLS == {BTCUSDT, ETHUSDT}

\* DEFAULT_QTY.get(symbol, 0.001), in thousandths
DEFAULT_QTY(symbol) ==
    IF symbol = BTCUSDT THEN 1
    ELSE IF symbol = ETHUSDT THEN 20
    ELSE 1

\* Faulty variant of MapUsd: the USDT form is taken without looking it up in
\* the allow-list; C14 must tell it from the code.
MapUsdUnchecked(s) ==
    IF s \notin ALLOWED_SYMBOLS /\ EndsWith(s, USD)
    THEN SubSeq(s, 1, Len(s) - 3) \o USDT
    ELSE s

\* The USD -> USDT rewrite of normalize_symbol (lines 124-127)
MapUsd(s) ==
    IF s \notin ALLOWED_SYMBOLS /\ EndsWith(s, USD)
    THEN LET maybe == SubSeq(s, 1, Len(s) - 3) \o USDT
         IN IF maybe \in ALLOWED_SYMBOLS THEN maybe ELSE s
    ELSE s

\* s.split(":")[-1].strip() when ":" in s (lines 120-121)
DropPrefix(s) == IF Contains(s, ":") THEN Strip(AfterLast(s, ":")) ELSE s

normalize_symbol(raw_symbol) ==
    IF raw_symbol = <<>>
    THEN <<>>
    ELSE MapUsd(Without(DropPrefix(Upper(Strip(raw_symbol))), "/"))

\* ---------------------------------------------------------------- payloads
\* A JSON field of the parsed body: absent, null, a number, or a string that
\* float() cannot parse.
Absent == [t |-> "absent", v |-> 0]
Null == [t |-> "null", v |-> 0]
Num(n) == [t |-> "num", v |-> n]
BadStr == [t |-> "str", v |-> 0]

\* dict.get(key, default); Python's None is Null
Get(field, default) == IF field.t = "absent" THEN default ELSE field

BUY == <<"B","U","Y">>
SELL == <<"S","E","L","L">>

ActionInputs ==
    { <<>>, BUY, <<"s","e","l","l">>, <<"H","O","L","D">> }

SymbolInputs ==
    { <<>>,
      BTCUSDT,
      <<"b","i","n","a","n","c","e",":","e","t","h","/","u","s","d">>,
      <<" ","B","T","C","/","U","S","D","T"," ">>,
      <<"D","O","G","E","U","S","D","T">> }

PingInputs == {"absent", "true", "one"}

QtyInputs == {Absent, Null, BadStr} \cup {Num(n) : n \in -1..MaxQty}
QuantityInputs == {Absent} \cup {Num(n) : n \in 0..MaxQty}
PriceInputs == {Absent, Num(5), BadStr}
StopInputs == {Absent, BadStr}

\* What request.get_json / json.loads leave in `data` (lines 214-222):
\*   "falsy"     nothing parsed, or a value Python treats as false ({} [] 0 "" null)
\*   "nonobject" a non-empty array, string or number
\*   "object"    a non-empty JSON object with the fields below
ObjectPayloads ==
    [ body : {"object"}, ping : PingInputs, debug : BOOLEAN,
      action : ActionInputs, symbol : SymbolInputs,
      qty : QtyInputs, quantity : QuantityInputs,
      entry_price : PriceInputs, sl_price : StopInputs, tp_price : StopInputs ]

BlankFields(kind) ==
    [ body |-> kind, ping |-> "absent", debug |-> FALSE,
      action |-> <<>>, symbol |-> <<>>, qty |-> Absent, quantity |-> Absent,
      entry_price |-> Absent, sl_price |-> Absent, tp_price |-> Absent ]

Payloads == ObjectPayloads \cup {BlankFields("falsy"), BlankFields("nonobject")}

NoDelivery == BlankFields("none")

\* --------------------------------------------------------- signal validator
\* `not data` (line 230)
IsEmpty(p) == p.body = "falsy"

\* data.get(...) on a value that is no dict raises AttributeError (line 235)
IsObject(p) == p.body = "object"

\* Faulty variant of IsPing: any truthy ping, as `if data.get("ping"):` would
\* test; C10 must tell it from the code.
IsPingTruthy(p) == p.ping # "absent"

\* data.get("ping") is True (line 235)
IsPing(p) == p.ping = "true"

\* "debug" in data (line 240)
IsDebug(p) == p.debug

\* str(data.get("action", "")).upper() (line 246)
ActionOf(p) == Upper(p.action)

\* action in ("BUY", "SELL") (line 251)
IsTrade(action) == action \in {BUY, SELL}

\* normalize_symbol(str(data.get("symbol", ""))) (lines 247-248)
SymbolOf(p) == normalize_symbol(p.symbol)

\* symbol in ALLOWED_SYMBOLS (line 256)
IsAllowed(symbol) == symbol \in ALLOWED_SYMBOLS

\* float(x): a number parses, anything else raises
Float(field) == [ok |-> field.t = "num", v |-> field.v]

\* Faulty variant of QtyAccepted: `assert qty >= 0`; C3 must tell it from the
\* code.
QtyNotNegative(v) == v >= 0

\* assert qty > 0 (line 267)
QtyAccepted(v) == v > 0

\* lines 262-268: [ok, v]; ok is FALSE when float() or the assert raises
ResolveQty(p, symbol) ==
    LET got == Get(p.qty, Get(p.quantity, Null))
        qty == IF got.t = "null" THEN Num(DEFAULT_QTY(symbol)) ELSE got
        f == Float(qty)
    IN [ok |-> f.ok /\ QtyAccepted(f.v), v |-> f.v]

\* float(data.get(key, 0) or 0) (lines 274-276): [ok, v]; ok is FALSE when
\* float() raises ValueError
PriceOf(field) ==
    LET got == Get(field, Num(0))
        truthy == (got.t = "num" /\ got.v # 0) \/ got.t = "str"
    IN IF truthy THEN Float(got) ELSE [ok |-> TRUE, v |-> 0]

PricesParse(p) ==
    PriceOf(p.entry_price).ok /\ PriceOf(p.sl_price).ok /\ PriceOf(p.tp_price).ok

AttributeError == <<"AttributeError", "object has no attribute 'get'">>
ValueError == <<"ValueError", "could not convert string to float">>

\* Faulty variant of ClassifyTrade: the symbol is checked before the action;
\* C9 must tell it from the code.
ClassifyTradeSymbolFirst(p) ==
    IF ~IsAllowed(SymbolOf(p)) THEN
        [kind |-> "rejected", status |-> 400,
         error |-> [text |-> "Unsupported symbol", raw |-> p.symbol,
                    symbol |-> SymbolOf(p)]]
    ELSE IF ~IsTrade(ActionOf(p)) THEN
        [kind |-> "ignorable", status |-> 200, note |-> "ignored (no BUY/SELL)",
         json |-> "data"]
    ELSE IF ~ResolveQty(p, SymbolOf(p)).ok THEN
        [kind |-> "rejected", status |-> 400, error |-> "Invalid qty"]
    ELSE IF ~PricesParse(p) THEN
        [kind |-> "fault", exc |-> ValueError]
    ELSE
        [kind |-> "actionable",
         action |-> ActionOf(p), symbol |-> SymbolOf(p),
         qty |-> ResolveQty(p, SymbolOf(p)).v,
         entry_price |-> PriceOf(p.entry_price).v,
         sl_price |-> PriceOf(p.sl_price).v,
         tp_price |-> PriceOf(p.tp_price).v]

\* Lines 246-276 of _handle_tv: action, then symbol, then quantity, then the
\* prices; first match wins.
ClassifyTrade(p) ==
    IF ~IsTrade(ActionOf(p)) THEN
        [kind |-> "ignorable", status |-> 200, note |-> "ignored (no BUY/SELL)",
         json |-> "data"]
    ELSE IF ~IsAllowed(SymbolOf(p)) THEN
        [kind |-> "rejected", status |-> 400,
         error |-> [text |-> "Unsupported symbol", raw |-> p.symbol,
                    symbol |-> SymbolOf(p)]]
    ELSE IF ~ResolveQty(p, SymbolOf(p)).ok THEN
        [kind |-> "rejected", status |-> 400, error |-> "Invalid qty"]
    ELSE IF ~PricesParse(p) THEN
        [kind |-> "fault", exc |-> ValueError]
    ELSE
        [kind |-> "actionable",
         action |-> ActionOf(p), symbol |-> SymbolOf(p),
         qty |-> ResolveQty(p, SymbolOf(p)).v,
         entry_price |-> PriceOf(p.entry_price).v,
         sl_price |-> PriceOf(p.sl_price).v,
         tp_price |-> PriceOf(p.tp_price).v]

\* Lines 214-276 of _handle_tv on one parsed body: empty, then ping, then
\* debug, then the trade fields; first match wins.
Classify(p) ==
    IF IsEmpty(p) THEN
        [kind |-> "ignorable", status |-> 200,
         note |-> "non-json or empty; ignored", json |-> "note"]
    ELSE IF ~IsObject(p) THEN
        [kind |-> "fault", exc |-> AttributeError]
    ELSE IF IsPing(p) THEN
        [kind |-> "ignorable", status |-> 200, note |-> "pong", json |-> "data"]
    ELSE IF IsDebug(p) THEN
        [kind |-> "ignorable", status |-> 200, note |-> "debug received",
         json |-> "data"]
    ELSE ClassifyTrade(p)

\* --------------------------------------------------------------- exchange
\* Texts of the exceptions client.new_order can raise.  The first three carry
\* one of the signatures line 152 looks for; the last is an ordinary refusal.
NewOrderErrors ==
    { <<"ClientError", "Invalid JSON error message">>,
      <<"ClientError", "404 Not found">>,
      <<"ServerError", "code=0">>,
      <<"ClientError", "code=-2010", "Account has insufficient balance">> }

\* Texts of the exceptions client.get_order can raise.
GetOrderErrors ==
    { <<"ClientError", "code=-2013", "Order does not exist.">>,
      <<"ClientError", "404 Not found">> }

\* f"tv_{int(time.time()*1000)}_{uuid.uuid4().hex[:8]}" (line 135)
ClientIds == {"tv_1700000000001_0a1b2c3d", "tv_1700000000002_4e5f6071"}

\* Faulty variant of IsAmbiguous: every error counts as ambiguous; C2 must
\* tell it from the code.
EveryErrorIsAmbiguous(msg) == msg # <<>>

\* line 152
IsAmbiguous(msg) ==
    \/ Contains(msg, "Invalid JSON error message")
    \/ Contains(msg, "404 Not found")
    \/ Contains(msg, "code=0")

\* Faulty variant of AfterPrimaryError: the submission is retried after an
\* ambiguous error; C1 must tell it from the code.
AfterPrimaryErrorRetry(msg) == IF IsAmbiguous(msg) THEN "submit" ELSE "log_trade"

\* Faulty variant of AfterPrimaryError: an error that is not ambiguous is
\* raised again and leaves the function; C17 must tell it from the code.
AfterPrimaryErrorReraise(msg) == IF IsAmbiguous(msg) THEN "lookup" ELSE "fault"

\* Where place_market_order_with_fallback goes after new_order raised
\* (lines 147-159): to the one lookup, or out with the failure.
AfterPrimaryError(msg) == IF IsAmbiguous(msg) THEN "lookup" ELSE "log_trade"

\* line 145
Confirmed(order, cid) ==
    [ok |-> TRUE, order |-> order, client_id |-> cid, note |-> ""]

\* Faulty variant of Recovered: the note is left empty; C4 must tell it from
\* the code.
RecoveredWithoutNote(status, cid) ==
    [ok |-> TRUE, order |-> status, client_id |-> cid, note |-> ""]

\* line 155
Recovered(status, cid) ==
    [ok |-> TRUE, order |-> status, client_id |-> cid,
     note |-> "Recovered after parse error"]

\* line 157: f"Fallback lookup failed: {e2}"
RecoveryFailed(msg, e2, cid) ==
    [ok |-> FALSE, error |-> <<"Fallback lookup failed: ">> \o e2,
     client_id |-> cid]

\* line 159
HardFailure(msg, cid) == [ok |-> FALSE, error |-> msg, client_id |-> cid]

\* ------------------------------------------------------------------ state
Deliveries == {"d1", "d2"}

VARIABLES
    payload,      \* d -> the parsed body of webhook delivery d, or NoDelivery
    pc,           \* d -> where the handler of d stands
    sig,          \* d -> action, symbol, qty and prices after validation
    client_id,    \* d -> the correlation id of d's order attempt
    primary,      \* d -> text of the primary order error awaiting the lookup
    res,          \* d -> what place_market_order_with_fallback returned
    exc,          \* d -> text of the exception caught at line 302
    out,          \* d -> status code, body and logged json about to be sent
    resp,         \* d -> the response _handle_tv returned
    exch,         \* d -> the calls made to the exchange for d, in order
    trades,       \* d -> rows of table trades written for d
    webhook_log,  \* d -> rows of table webhook_log written for d
    raw_symbol,   \* the string handed to normalize_symbol
    spelled,      \* the symbol raw_symbol is a spelling of, or NoSpelling
    norm          \* what normalize_symbol returned, then what it returned for that

handlerVars == <<payload, pc, sig, client_id, primary, res, exc, out, resp,
                 exch, trades, webhook_log>>

normVars == <<raw_symbol, spelled, norm>>

vars == <<payload, pc, sig, client_id, primary, res, exc, out, resp, exch,
          trades, webhook_log, raw_symbol, spelled, norm>>

NoSpelling == <<"?">>

NoSignal == [kind |-> "none"]
NoResult == [ok |-> FALSE, error |-> <<>>, client_id |-> ""]
NoOut == [status |-> 0]
NoResponse == [status |-> 0]

\* One delivery is on its way; nothing has been handled yet.
Init ==
    /\ \E p \in Payloads :
           payload = [d \in Deliveries |-> IF d = "d1" THEN p ELSE NoDelivery]
    /\ pc = [d \in Deliveries |-> "idle"]
    /\ sig = [d \in Deliveries |-> NoSignal]
    /\ client_id = [d \in Deliveries |-> ""]
    /\ primary = [d \in Deliveries |-> <<>>]
    /\ res = [d \in Deliveries |-> NoResult]
    /\ exc = [d \in Deliveries |-> <<>>]
    /\ out = [d \in Deliveries |-> NoOut]
    /\ resp = [d \in Deliveries |-> NoResponse]
    /\ exch = [d \in Deliveries |-> <<>>]
    /\ trades = [d \in Deliveries |-> <<>>]
    /\ webhook_log = [d \in Deliveries |-> <<>>]
    /\ raw_symbol = <<>>
    /\ spelled = NoSpelling
    /\ norm = <<>>

\* Faulty variant of Arrived: a delivery whose body another delivery already
\* brought is held back, as a de-duplicating handler would; C18 must tell it
\* from the code.
ArrivedUnlessDuplicate(d) ==
    /\ pc[d] = "idle" /\ payload[d] # NoDelivery
    /\ \A e \in Deliveries \ {d} : payload[e] = payload[d] => pc[e] = "idle"

Arrived(d) == pc[d] = "idle" /\ payload[d] # NoDelivery

\* ------------------------------------------------- _handle_tv, lines 208-279
\* Ignorable body: the 200 acknowledgement is prepared (lines 230-254).
Acknowledge(d) ==
    /\ UNCHANGED normVars
    /\ Arrived(d)
    /\ Classify(payload[d]).kind = "ignorable"
    /\ LET c == Classify(payload[d])
       IN out' = [out EXCEPT ![d] =
                     [status |-> c.status, json |-> c.json,
                      body |-> [ok |-> TRUE, note |-> c.note]]]
    /\ pc' = [pc EXCEPT ![d] = "log_hit"]
    /\ UNCHANGED <<payload, sig, client_id, primary, res, exc, resp, exch,
                   trades, webhook_log>>

\* Unsupported symbol or invalid quantity: the 400 is prepared (lines 256-271).
Reject(d) ==
    /\ UNCHANGED normVars
    /\ Arrived(d)
    /\ Classify(payload[d]).kind = "rejected"
    /\ LET c == Classify(payload[d])
       IN out' = [out EXCEPT ![d] =
                     [status |-> c.status, json |-> "data",
                      body |-> [error |-> c.error]]]
    /\ pc' = [pc EXCEPT ![d] = "log_hit"]
    /\ UNCHANGED <<payload, sig, client_id, primary, res, exc, resp, exch,
                   trades, webhook_log>>

\* An exception inside the try block before the order is placed (data.get on
\* a non-object, float() of a price): control goes to line 302.
Fault(d) ==
    /\ UNCHANGED normVars
    /\ Arrived(d)
    /\ Classify(payload[d]).kind = "fault"
    /\ exc' = [exc EXCEPT ![d] = Classify(payload[d]).exc]
    /\ pc' = [pc EXCEPT ![d] = "fault"]
    /\ UNCHANGED <<payload, sig, client_id, primary, res, out, resp, exch,
                   trades, webhook_log>>

\* Actionable signal: place_market_order_with_fallback is entered and draws
\* its correlation id (lines 279, 135).
Accept(d) ==
    /\ UNCHANGED normVars
    /\ Arrived(d)
    /\ Classify(payload[d]).kind = "actionable"
    /\ sig' = [sig EXCEPT ![d] = Classify(payload[d])]
    /\ \E cid \in ClientIds : client_id' = [client_id EXCEPT ![d] = cid]
    /\ pc' = [pc EXCEPT ![d] = "submit"]
    /\ UNCHANGED <<payload, primary, res, exc, out, resp, exch, trades,
                   webhook_log>>

\* ------------------------- place_market_order_with_fallback, lines 137-159
NewOrderCall(d, raised) ==
    [op |-> "new_order", symbol |-> sig[d].symbol, side |-> sig[d].action,
     type |-> "MARKET", quantity |-> sig[d].qty, clientOrderId |-> client_id[d],
     raised |-> raised]

\* Faulty variant of GetOrderCall: the lookup asks for a correlation id drawn
\* anew; C20 must tell it from the code.
GetOrderCallFreshId(d, raised) ==
    [op |-> "get_order", symbol |-> sig[d].symbol,
     clientOrderId |-> CHOOSE cid \in ClientIds : cid # client_id[d],
     raised |-> raised]

GetOrderCall(d, raised) ==
    [op |-> "get_order", symbol |-> sig[d].symbol,
     clientOrderId |-> client_id[d], raised |-> raised]

\* What the exchange returns for an order
OrderOf(call) == [from |-> call.op, clientOrderId |-> call.clientOrderId]

\* client.new_order returns (lines 138-145)
SubmitReturns(d) ==
    /\ UNCHANGED normVars
    /\ pc[d] = "submit"
    /\ exch' = [exch EXCEPT ![d] = Append(@, NewOrderCall(d, <<>>))]
    /\ res' = [res EXCEPT ![d] =
                  Confirmed(OrderOf(NewOrderCall(d, <<>>)), client_id[d])]
    /\ pc' = [pc EXCEPT ![d] = "log_trade"]
    /\ UNCHANGED <<payload, sig, client_id, primary, exc, out, resp, trades,
                   webhook_log>>

\* client.new_order raises (lines 147-152, 158-159)
SubmitRaises(d) ==
    /\ UNCHANGED normVars
    /\ pc[d] = "submit"
    /\ \E msg \in NewOrderErrors :
         /\ exch' = [exch EXCEPT ![d] = Append(@, NewOrderCall(d, msg))]
         /\ pc' = [pc EXCEPT ![d] = AfterPrimaryError(msg)]
         /\ IF AfterPrimaryError(msg) = "log_trade"
            THEN /\ res' = [res EXCEPT ![d] = HardFailure(msg, client_id[d])]
                 /\ UNCHANGED primary
            ELSE /\ primary' = [primary EXCEPT ![d] = msg]
                 /\ UNCHANGED res
    /\ UNCHANGED <<payload, sig, client_id, exc, out, resp, trades, webhook_log>>

\* client.get_order returns (lines 154-155)
LookupReturns(d) ==
    /\ UNCHANGED normVars
    /\ pc[d] = "lookup"
    /\ exch' = [exch EXCEPT ![d] = Append(@, GetOrderCall(d, <<>>))]
    /\ res' = [res EXCEPT ![d] =
                  Recovered(OrderOf(GetOrderCall(d, <<>>)), client_id[d])]
    /\ pc' = [pc EXCEPT ![d] = "log_trade"]
    /\ UNCHANGED <<payload, sig, client_id, primary, exc, out, resp, trades,
                   webhook_log>>

\* client.get_order raises (lines 156-157)
LookupRaises(d) ==
    /\ UNCHANGED normVars
    /\ pc[d] = "lookup"
    /\ \E e2 \in GetOrderErrors :
         /\ exch' = [exch EXCEPT ![d] = Append(@, GetOrderCall(d, e2))]
         /\ res' = [res EXCEPT ![d] =
                       RecoveryFailed(primary[d], e2, client_id[d])]
    /\ pc' = [pc EXCEPT ![d] = "log_trade"]
    /\ UNCHANGED <<payload, sig, client_id, primary, exc, out, resp, trades,
                   webhook_log>>

\* ----------------------------------------------------------- audit tables
\* The row _handle_tv hands to log_trade (lines 282-288, 81-91); the
\* timestamp column is left out.
TradeRow(signal, result) ==
    [action |-> signal.action, symbol |-> signal.symbol, qty |-> signal.qty,
     entry_price |-> signal.entry_price, sl_price |-> signal.sl_price,
     tp_price |-> signal.tp_price,
     status |-> IF result.ok THEN "success" ELSE "error",
     error |-> IF result.ok THEN <<>> ELSE result.error,
     client_id |-> result.client_id,
     note |-> IF result.ok THEN result.note ELSE ""]

\* The response after the order attempt (lines 291-300)
OrderResponse(result) ==
    IF result.ok
    THEN [status |-> 200, json |-> "data",
          body |-> [success |-> TRUE, client_id |-> result.client_id,
                    order |-> result.order]]
    ELSE [status |-> 502, json |-> "data", body |-> [error |-> result.error]]

\* The response of the except branch (line 315)
FaultResponse(e) == [status |-> 400, json |-> "error", body |-> [error |-> e]]

\* Faulty variant of WebhookRow: the row always records 200; C16 must tell
\* it from the code.
WebhookRowAlways200(o) == [json |-> o.json, status_code |-> 200]

\* The row log_webhook_hit inserts (lines 99-100); ts, path, headers and raw
\* are left out.
WebhookRow(o) == [json |-> o.json, status_code |-> o.status]

\* Text of the exception sqlite3 raises when an INSERT cannot be done
DbError == <<"OperationalError", "database is locked">>

\* log_trade inserts the row (lines 282-288); the response is prepared.
LogTrade(d) ==
    /\ UNCHANGED normVars
    /\ pc[d] = "log_trade"
    /\ trades' = [trades EXCEPT ![d] = Append(@, TradeRow(sig[d], res[d]))]
    /\ out' = [out EXCEPT ![d] = OrderResponse(res[d])]
    /\ pc' = [pc EXCEPT ![d] = "log_hit"]
    /\ UNCHANGED <<payload, sig, client_id, primary, res, exc, resp, exch,
                   webhook_log>>

\* log_webhook_hit inserts the row and the handler returns
\* (lines 231-232, 237-238, 242-243, 253-254, 258-259, 270-271, 294-295, 299-300).
LogHit(d) ==
    /\ UNCHANGED normVars
    /\ pc[d] = "log_hit"
    /\ webhook_log' = [webhook_log EXCEPT ![d] = Append(@, WebhookRow(out[d]))]
    /\ resp' = [resp EXCEPT ![d] = [status |-> out[d].status, body |-> out[d].body]]
    /\ pc' = [pc EXCEPT ![d] = "returned"]
    /\ UNCHANGED <<payload, sig, client_id, primary, res, exc, out, exch, trades>>

\* The except branch: log_webhook_hit with 400, then the 400 response
\* (lines 302-315).
FaultLogHit(d) ==
    /\ UNCHANGED normVars
    /\ pc[d] = "fault"
    /\ webhook_log' = [webhook_log EXCEPT ![d] =
                          Append(@, WebhookRow(FaultResponse(exc[d])))]
    /\ resp' = [resp EXCEPT ![d] =
                   [status |-> FaultResponse(exc[d]).status,
                    body |-> FaultResponse(exc[d]).body]]
    /\ pc' = [pc EXCEPT ![d] = "returned"]
    /\ UNCHANGED <<payload, sig, client_id, primary, res, exc, out, exch, trades>>

\* Faulty variant of AfterWriteError: an INSERT that raises inside the try
\* block is swallowed and the handler returns; C19 must tell it from the code.
AfterWriteErrorSwallowed == "returned"

\* ------------------------------------------------- audit writes that fail
\* Where the handler goes when an INSERT inside the try block raises: the
\* except branch at line 302.
AfterWriteError == "fault"

\* Where the handler goes when the INSERT of the except branch (line 314)
\* raises: nothing catches it, the exception leaves _handle_tv.
AfterFaultWriteError == "raised"

\* log_trade raises (line 282): no row; the exception is caught at line 302.
LogTradeFails(d) ==
    /\ UNCHANGED normVars
    /\ pc[d] = "log_trade"
    /\ exc' = [exc EXCEPT ![d] = DbError]
    /\ pc' = [pc EXCEPT ![d] = AfterWriteError]
    /\ UNCHANGED <<payload, sig, client_id, primary, res, out, resp, exch,
                   trades, webhook_log>>

\* log_webhook_hit raises inside the try block: no row; caught at line 302.
LogHitFails(d) ==
    /\ UNCHANGED normVars
    /\ pc[d] = "log_hit"
    /\ exc' = [exc EXCEPT ![d] = DbError]
    /\ pc' = [pc EXCEPT ![d] = AfterWriteError]
    /\ UNCHANGED <<payload, sig, client_id, primary, res, out, resp, exch,
                   trades, webhook_log>>

\* log_webhook_hit raises inside the except branch (line 314).
FaultLogHitFails(d) ==
    /\ UNCHANGED normVars
    /\ pc[d] = "fault"
    /\ pc' = [pc EXCEPT ![d] = AfterFaultWriteError]
    /\ UNCHANGED <<payload, sig, client_id, primary, res, exc, out, resp, exch,
                   trades, webhook_log>>

\* ---------------------------------------------------------- specifications
\* The handler with an audit log that takes every write.
Next ==
    \E d \in Deliveries :
        \/ Acknowledge(d)
        \/ Reject(d)
        \/ Fault(d)
        \/ Accept(d)
        \/ SubmitReturns(d)
        \/ SubmitRaises(d)
        \/ LookupReturns(d)
        \/ LookupRaises(d)
        \/ LogTrade(d)
        \/ LogHit(d)
        \/ FaultLogHit(d)

Spec == Init /\ [][Next]_vars

\* The handler with an audit log whose writes can fail.
NextAuditFault ==
    \E d \in Deliveries :
        \/ Acknowledge(d)
        \/ Reject(d)
        \/ Fault(d)
        \/ Accept(d)
        \/ SubmitReturns(d)
        \/ SubmitRaises(d)
        \/ LookupReturns(d)
        \/ LookupRaises(d)
        \/ LogTrade(d)
        \/ LogHit(d)
        \/ FaultLogHit(d)
        \/ LogTradeFails(d)
        \/ LogHitFails(d)
        \/ FaultLogHitFails(d)

SpecAuditFault == Init /\ [][NextAuditFault]_vars

\* Two deliveries handled at once: Flask serves each request on its own
\* thread, and _handle_tv holds no lock (lines 207-315).
ConcurrentPayloads ==
    { [BlankFields("object") EXCEPT
          !.action = BUY, !.symbol = BTCUSDT, !.qty = Num(1)],
      [BlankFields("object") EXCEPT
          !.action = BUY, !.symbol = <<" ","B","T","C","/","U","S","D","T"," ">>],
      [BlankFields("object") EXCEPT
          !.action = <<"s","e","l","l">>,
          !.symbol = <<"b","i","n","a","n","c","e",":","e","t","h","/","u","s","d">>],
      [BlankFields("object") EXCEPT
          !.action = <<"H","O","L","D">>, !.symbol = BTCUSDT],
      [BlankFields("object") EXCEPT
          !.action = BUY, !.symbol = <<"D","O","G","E","U","S","D","T">>],
      BlankFields("nonobject") }

InitConcurrent ==
    /\ payload \in [Deliveries -> ConcurrentPayloads]
    /\ pc = [d \in Deliveries |-> "idle"]
    /\ sig = [d \in Deliveries |-> NoSignal]
    /\ client_id = [d \in Deliveries |-> ""]
    /\ primary = [d \in Deliveries |-> <<>>]
    /\ res = [d \in Deliveries |-> NoResult]
    /\ exc = [d \in Deliveries |-> <<>>]
    /\ out = [d \in Deliveries |-> NoOut]
    /\ resp = [d \in Deliveries |-> NoResponse]
    /\ exch = [d \in Deliveries |-> <<>>]
    /\ trades = [d \in Deliveries |-> <<>>]
    /\ webhook_log = [d \in Deliveries |-> <<>>]
    /\ raw_symbol = <<>>
    /\ spelled = NoSpelling
    /\ norm = <<>>

SpecConcurrent == InitConcurrent /\ [][NextAuditFault]_vars

\* ------------------------------------------------------------ type invariant
PcValues ==
    {"idle", "submit", "lookup", "log_trade", "log_hit", "fault", "returned",
     "raised"}

TypeOK ==
    /\ pc \in [Deliveries -> PcValues]
    /\ \A d \in Deliveries :
         /\ payload[d] \in Payloads \cup {NoDelivery}
         /\ client_id[d] \in ClientIds \cup {""}
         /\ resp[d].status \in {0, 200, 400, 502}
         /\ Len(exch[d]) <= 2

\* =================================================================== claims
\* What the claims speak of, read off the state.
IsNewOrder(call) == call.op = "new_order"
IsGetOrder(call) == call.op = "get_order"

\* Number of calls of client.new_order / client.get_order made for d
Submissions(d) == Cardinality({i \in DOMAIN exch[d] : IsNewOrder(exch[d][i])})
Lookups(d) == Cardinality({i \in DOMAIN exch[d] : IsGetOrder(exch[d][i])})

\* place_market_order_with_fallback was called for d / has returned for d
PlaceCalled(d) == sig[d] # NoSignal
PlaceReturned(d) == PlaceCalled(d) /\ pc[d] \notin {"submit", "lookup"}

\* The handler of d is over: it returned a response, or an exception left it
Finished(d) == pc[d] \in {"returned", "raised"}

AmbiguousSignatures == {"Invalid JSON error message", "404 Not found", "code=0"}
CarriesSignature(msg) == \E x \in AmbiguousSignatures : Contains(msg, x)

\* The submission raised an ambiguous-response error and the lookup returned /
\* raised
RecoveredCase(d) ==
    /\ Len(exch[d]) = 2
    /\ IsNewOrder(exch[d][1]) /\ CarriesSignature(exch[d][1].raised)
    /\ IsGetOrder(exch[d][2]) /\ exch[d][2].raised = <<>>

RecoveryFailedCase(d) ==
    /\ Len(exch[d]) = 2
    /\ IsNewOrder(exch[d][1]) /\ CarriesSignature(exch[d][1].raised)
    /\ IsGetOrder(exch[d][2]) /\ exch[d][2].raised # <<>>

\* C1: every call of place_market_order_with_fallback makes exactly one
\* client.new_order call, whatever the exchange answers: none before the call,
\* one from the moment the exchange has answered, never a second one after an
\* error or after a failed lookup.
C1_OneSubmission ==
    \A d \in Deliveries :
        /\ Submissions(d) <= 1
        /\ ~PlaceCalled(d) => Submissions(d) = 0
        /\ (PlaceCalled(d) /\ pc[d] # "submit") => Submissions(d) = 1
        /\ \A i \in DOMAIN exch[d] : IsNewOrder(exch[d][i]) => i = 1

\* C1 witness: the handler is over after an ambiguous error and a failed
\* lookup, with one submission made.
C1_Witness ==
    \E d \in Deliveries :
        Finished(d) /\ RecoveryFailedCase(d) /\ Submissions(d) = 1

\* C2: client.get_order is called only after the submission raised an error
\* carrying an ambiguous-response signature, and then exactly once; after a
\* submission that returned there is no lookup; after any other error there
\* is no lookup and the result is a failure with the original error text.
C2_LookupOnlyWhenAmbiguous ==
    \A d \in Deliveries :
        /\ Lookups(d) <= 1
        /\ \A i \in DOMAIN exch[d] :
               IsGetOrder(exch[d][i]) =>
                   /\ i = 2
                   /\ IsNewOrder(exch[d][1])
                   /\ CarriesSignature(exch[d][1].raised)
        /\ PlaceReturned(d) =>
               LET first == exch[d][1].raised
               IN /\ first = <<>> => (Lookups(d) = 0 /\ res[d].ok)
                  /\ CarriesSignature(first) => Lookups(d) = 1
                  /\ (first # <<>> /\ ~CarriesSignature(first)) =>
                         /\ Lookups(d) = 0
                         /\ ~res[d].ok
                         /\ res[d].error = first

\* C2 witness: place has returned after its one lookup.
C2_Witness ==
    \E d \in Deliveries : PlaceReturned(d) /\ Lookups(d) = 1

\* C3: the exchange has been called for a delivery only if its upper-cased
\* action is BUY or SELL, its normalized symbol is allow-listed and its
\* resolved quantity is positive; an ignorable or rejected delivery never
\* enters the order placement.
C3_OnlyValidSignalsReachExchange ==
    \A d \in Deliveries :
        /\ (exch[d] # <<>> \/ PlaceCalled(d)) =>
               /\ Upper(payload[d].action) \in {BUY, SELL}
               /\ normalize_symbol(payload[d].symbol) \in ALLOWED_SYMBOLS
               /\ sig[d].qty > 0
               /\ \A i \in DOMAIN exch[d] :
                      /\ exch[d][i].symbol \in ALLOWED_SYMBOLS
                      /\ IsNewOrder(exch[d][i]) =>
                             /\ exch[d][i].quantity > 0
                             /\ exch[d][i].side \in {BUY, SELL}
        /\ (out[d] # NoOut /\ ~PlaceCalled(d)) => exch[d] = <<>>
        /\ Classify(payload[d]).kind \in {"ignorable", "rejected"} =>
               (exch[d] = <<>> /\ ~PlaceCalled(d))

\* C3 witness: the exchange was called for a signal spelled in lower case
\* with an exchange prefix.
C3_Witness ==
    \E d \in Deliveries :
        /\ exch[d] # <<>>
        /\ payload[d].action \notin {BUY, SELL}
        /\ payload[d].symbol \notin ALLOWED_SYMBOLS

\* C4: after an ambiguous-response error and a lookup that returned, place
\* returns ok with note "Recovered after parse error" and the looked-up
\* order, the trade row has status "success" and that note, and the webhook
\* is answered 200.
C4_RecoveredIsSuccess ==
    \A d \in Deliveries :
        RecoveredCase(d) =>
            /\ res[d].ok
            /\ res[d].note = "Recovered after parse error"
            /\ res[d].order = OrderOf(exch[d][2])
            /\ exch[d][2].clientOrderId = exch[d][1].clientOrderId
            /\ pc[d] \in {"log_trade", "log_hit", "returned"}
            /\ pc[d] \in {"log_hit", "returned"} =>
                   /\ Len(trades[d]) = 1
                   /\ trades[d][1].status = "success"
                   /\ trades[d][1].note = "Recovered after parse error"
            /\ pc[d] = "returned" => resp[d].status = 200

\* C4 witness: a recovered order has been answered.
C4_Witness ==
    \E d \in Deliveries : RecoveredCase(d) /\ pc[d] = "returned"

\* C5 as stated: after an ambiguous-response error and a lookup that raised,
\* place returns ok = false, the error text holds the "Fallback lookup
\* failed" marker, the correlation id and the original error, and the webhook
\* is answered 502.
C5_Stated ==
    \A d \in Deliveries :
        RecoveryFailedCase(d) =>
            /\ ~res[d].ok
            /\ Contains(res[d].error, "Fallback lookup failed: ")
            /\ Contains(res[d].error, client_id[d])
            /\ \A i \in DOMAIN exch[d][1].raised :
                   Contains(res[d].error, exch[d][1].raised[i])
            /\ pc[d] = "returned" => resp[d].status = 502

\* C6 as stated: once the handler is over, every call of the order placement
\* has left exactly one row in trades, also when an audit write fails.
C6_Stated ==
    \A d \in Deliveries :
        /\ Len(trades[d]) <= 1
        /\ (PlaceReturned(d) /\ Finished(d)) => Len(trades[d]) = 1

\* C7 as stated: a placed order (ok = true) is answered 200 with success and
\* the client_id, also when a later audit write fails.
C7_Stated ==
    \A d \in Deliveries :
        (PlaceReturned(d) /\ res[d].ok /\ Finished(d)) =>
            /\ resp[d].status = 200
            /\ resp[d].body.success
            /\ resp[d].body.client_id = client_id[d]

\* C8 as stated: the handler always ends by returning a response with a
\* status in {200, 400, 502}, also when the audit write of the except branch
\* fails.
C8_Stated ==
    \A d \in Deliveries :
        Finished(d) => (pc[d] = "returned" /\ resp[d].status \in {200, 400, 502})

\* C9: first match wins in the order (empty, ping,) debug, action, symbol,
\* quantity: an object without ping and debug whose upper-cased action is
\* neither BUY nor SELL is answered 200 "ignored (no BUY/SELL)" and never
\* 400, whatever its symbol and quantity; debug wins over the action, and the
\* symbol wins over the quantity.
C9_FirstMatchWins ==
    \A d \in Deliveries :
        LET p == payload[d]
            noTrade == Upper(p.action) \notin {BUY, SELL}
            noSymbol == normalize_symbol(p.symbol) \notin ALLOWED_SYMBOLS
        IN (p.body = "object" /\ p.ping = "absent" /\ pc[d] # "idle") =>
               /\ p.debug =>
                      /\ out[d] = [status |-> 200, json |-> "data",
                                   body |-> [ok |-> TRUE, note |-> "debug received"]]
                      /\ pc[d] = "returned" => resp[d].status = 200
               /\ (~p.debug /\ noTrade) =>
                      /\ out[d] = [status |-> 200, json |-> "data",
                                   body |-> [ok |-> TRUE,
                                             note |-> "ignored (no BUY/SELL)"]]
                      /\ pc[d] \in {"log_hit", "returned"}
                      /\ pc[d] = "returned" =>
                             /\ resp[d].status = 200
                             /\ resp[d].body.note = "ignored (no BUY/SELL)"
               /\ (~p.debug /\ ~noTrade /\ noSymbol) =>
                      /\ out[d].status = 400
                      /\ out[d].body.error.text = "Unsupported symbol"
                      /\ pc[d] = "returned" => resp[d].status = 400

\* C9 witness: a HOLD for a symbol outside the allow-list with an invalid
\* quantity has been answered.
C9_Witness ==
    \E d \in Deliveries :
        /\ pc[d] = "returned"
        /\ payload[d].body = "object"
        /\ payload[d].ping = "absent" /\ ~payload[d].debug
        /\ Upper(payload[d].action) = <<"H","O","L","D">>
        /\ normalize_symbol(payload[d].symbol) \notin ALLOWED_SYMBOLS
        /\ payload[d].qty = Num(-1)
        /\ resp[d].status = 200

\* A payload that places an order when it carries no ping
TradeButForPing(p) ==
    /\ p.body = "object" /\ ~p.debug
    /\ Upper(p.action) \in {BUY, SELL}
    /\ normalize_symbol(p.symbol) \in ALLOWED_SYMBOLS
    /\ p.qty \in {Num(n) : n \in 1..MaxQty}
    /\ p.entry_price # BadStr /\ p.sl_price # BadStr /\ p.tp_price # BadStr

\* C10 as stated: a payload whose ping is truthy (true, 1, ...) is answered
\* 200 "pong" and never enters the order placement.
C10_Stated ==
    \A d \in Deliveries :
        (payload[d].body = "object" /\ payload[d].ping \in {"true", "one"}
                                   /\ pc[d] # "idle") =>
            /\ ~PlaceCalled(d) /\ exch[d] = <<>>
            /\ pc[d] = "returned" =>
                   (resp[d].status = 200 /\ resp[d].body.note = "pong")

\* C10 amended: a payload whose ping is the JSON value true is answered 200
\* "pong" and never enters the order placement, even with a valid BUY/SELL
\* signal in it; a ping of 1 is not a ping, and such a payload with a valid
\* signal in it enters the order placement.
C10_PingTrueIsPong ==
    \A d \in Deliveries :
        /\ (payload[d].body = "object" /\ payload[d].ping = "true"
                                      /\ pc[d] # "idle") =>
               /\ ~PlaceCalled(d) /\ exch[d] = <<>> /\ trades[d] = <<>>
               /\ pc[d] \in {"log_hit", "returned"}
               /\ out[d].status = 200 /\ out[d].body.note = "pong"
               /\ pc[d] = "returned" =>
                      (resp[d].status = 200 /\ resp[d].body.note = "pong")
        /\ (payload[d].ping = "one" /\ TradeButForPing(payload[d])
                                    /\ pc[d] # "idle") => PlaceCalled(d)

\* C10 witness: a ping of true that carries a valid signal has been answered.
C10_Witness ==
    \E d \in Deliveries :
        /\ pc[d] = "returned"
        /\ payload[d].ping = "true"
        /\ TradeButForPing(payload[d])
        /\ resp[d].body.note = "pong"

\* An object that places an order but for the listed price fields
TradeButForPrices(p) ==
    /\ p.body = "object" /\ p.ping = "absent" /\ ~p.debug
    /\ Upper(p.action) \in {BUY, SELL}
    /\ normalize_symbol(p.symbol) \in ALLOWED_SYMBOLS
    /\ p.qty \in {Num(n) : n \in 1..MaxQty}

\* C11 as stated: a body that is empty, unparsable or parses to a JSON value
\* that is no object, a non-empty array included, is answered 200 and never
\* with an error status.
C11_Stated ==
    \A d \in Deliveries :
        (payload[d].body \in {"falsy", "nonobject"} /\ pc[d] # "idle") =>
            /\ pc[d] \in {"log_hit", "returned"}
            /\ pc[d] = "returned" => resp[d].status = 200

\* C12 as stated: with an otherwise valid BUY/SELL payload, a price field
\* that is absent or does not parse counts as zero, and the order is
\* submitted.
C12_Stated ==
    \A d \in Deliveries :
        (TradeButForPrices(payload[d]) /\ pc[d] # "idle") =>
            /\ PlaceCalled(d)
            /\ sig[d].entry_price =
                   (IF payload[d].entry_price.t = "num"
                    THEN payload[d].entry_price.v ELSE 0)
            /\ sig[d].sl_price = 0
            /\ sig[d].tp_price = 0

\* ==================================================== normalize_symbol alone
\* Longest raw symbol drawn from SymbolChars
MaxSymbolLen == 3

SymbolChars == {"a", "B", " ", ":", "/"}

\* Every string over SymbolChars of at most MaxSymbolLen characters
RawStrings == UNION {[1..n -> SymbolChars] : n \in 0..MaxSymbolLen}

\* The ways TradingView spells a pair: an exchange prefix ending in ":", a
\* "/" between base and quote, any case.
Bases == {<<"B","T","C">>, <<"E","T","H">>, <<"D","O","G","E">>}
Quotes == {USD, USDT}
Prefixes == {<<>>, <<"B","I","N","A","N","C","E",":">>, <<"x",":","y",":">>}
Separators == {<<>>, <<"/">>}
Casings == {"upper", "lower", "mixed"}

LowerChar(c) ==
    IF \E i \in 1..Len(Capital) : Capital[i] = c
    THEN Lower[CHOOSE i \in 1..Len(Capital) : Capital[i] = c]
    ELSE c

Cased(s, casing) ==
    [i \in 1..Len(s) |->
        IF casing = "lower" \/ (casing = "mixed" /\ i % 2 = 1)
        THEN LowerChar(s[i]) ELSE s[i]]

Spelling(prefix, base, sep, quote, casing) ==
    Cased(prefix \o base \o sep \o quote, casing)

\* The symbol a spelling of base and quote stands for: the USDT pair when
\* that pair is allow-listed, else base and quote as written.
SpelledSymbol(base, quote) ==
    IF base \o USDT \in ALLOWED_SYMBOLS THEN base \o USDT ELSE base \o quote

InitNormalize ==
    /\ payload = [d \in Deliveries |-> NoDelivery]
    /\ pc = [d \in Deliveries |-> "idle"]
    /\ sig = [d \in Deliveries |-> NoSignal]
    /\ client_id = [d \in Deliveries |-> ""]
    /\ primary = [d \in Deliveries |-> <<>>]
    /\ res = [d \in Deliveries |-> NoResult]
    /\ exc = [d \in Deliveries |-> <<>>]
    /\ out = [d \in Deliveries |-> NoOut]
    /\ resp = [d \in Deliveries |-> NoResponse]
    /\ exch = [d \in Deliveries |-> <<>>]
    /\ trades = [d \in Deliveries |-> <<>>]
    /\ webhook_log = [d \in Deliveries |-> <<>>]
    /\ norm = <<>>
    /\ \/ raw_symbol \in RawStrings /\ spelled = NoSpelling
       \/ \E prefix \in Prefixes, base \in Bases, sep \in Separators,
             quote \in Quotes, casing \in Casings :
               /\ raw_symbol = Spelling(prefix, base, sep, quote, casing)
               /\ spelled = SpelledSymbol(base, quote)

\* normalize_symbol(raw_symbol)
Normalize ==
    /\ norm = <<>>
    /\ norm' = <<normalize_symbol(raw_symbol)>>
    /\ UNCHANGED <<handlerVars, raw_symbol, spelled>>

\* normalize_symbol applied to its own result
NormalizeAgain ==
    /\ Len(norm) = 1
    /\ norm' = Append(norm, normalize_symbol(norm[1]))
    /\ UNCHANGED <<handlerVars, raw_symbol, spelled>>

NextNormalize == Normalize \/ NormalizeAgain

SpecNormalize == InitNormalize /\ [][NextNormalize]_vars

\* C13 as stated: normalize_symbol(normalize_symbol(s)) = normalize_symbol(s)
\* for every s over letters, whitespace, ":" and "/".
C13_Stated == Len(norm) = 2 => norm[2] = norm[1]

\* C14: every spelling of an allow-listed symbol (any case, exchange prefix,
\* "/" between base and quote) is mapped to that symbol; a string ending in
\* USD that is not allow-listed becomes its USDT form exactly when that form
\* is allow-listed and is otherwise returned as it is; an allow-listed string
\* is returned as it is.
C14_SpellingsMapToSymbol ==
    Len(norm) >= 1 =>
        /\ spelled # NoSpelling => norm[1] = spelled
        /\ (norm[1] \notin ALLOWED_SYMBOLS /\ EndsWith(norm[1], USD)) =>
               SubSeq(norm[1], 1, Len(norm[1]) - 3) \o USDT \notin ALLOWED_SYMBOLS
        /\ Upper(raw_symbol) \in ALLOWED_SYMBOLS => norm[1] = Upper(raw_symbol)

\* C14 witness: a lower-case spelling with prefix and "/" of the USD form of
\* ETHUSDT has been normalised.
C14_Witness ==
    /\ Len(norm) >= 1
    /\ spelled = ETHUSDT /\ norm[1] = ETHUSDT
    /\ Contains(raw_symbol, ":") /\ Contains(raw_symbol, "/")
    /\ EndsWith(raw_symbol, <<"u","s","d">>)

\* A field that supplies a value: present and not null
Supplies(field) == field.t \notin {"absent", "null"}

\* A BUY/SELL object for an allow-listed symbol whose prices parse: what is
\* left to decide is the quantity
TradeButForQty(p) ==
    /\ p.body = "object" /\ p.ping = "absent" /\ ~p.debug
    /\ Upper(p.action) \in {BUY, SELL}
    /\ normalize_symbol(p.symbol) \in ALLOWED_SYMBOLS
    /\ p.entry_price # BadStr /\ p.sl_price # BadStr /\ p.tp_price # BadStr

\* C15 as stated: the quantity is the value supplied in qty or, failing that,
\* in quantity; DEFAULT_QTY is used only when neither supplies a value, and
\* the order is then placed; a quantity that does not parse or is <= 0 is
\* answered 400 "Invalid qty".
C15_Stated ==
    \A d \in Deliveries :
        LET p == payload[d]
            symbol == normalize_symbol(p.symbol)
            chosen == IF Supplies(p.qty) THEN p.qty
                      ELSE IF Supplies(p.quantity) THEN p.quantity
                      ELSE Num(IF symbol = BTCUSDT THEN 1 ELSE 20)
            valid == chosen.t = "num" /\ chosen.v > 0
        IN (TradeButForQty(p) /\ pc[d] # "idle") =>
               /\ valid =>
                      /\ PlaceCalled(d)
                      /\ sig[d].qty = chosen.v
                      /\ \A i \in DOMAIN exch[d] :
                             IsNewOrder(exch[d][i]) =>
                                 exch[d][i].quantity = chosen.v
               /\ ~valid =>
                      /\ ~PlaceCalled(d)
                      /\ out[d].status = 400
                      /\ out[d].body.error = "Invalid qty"

\* C16: a delivery classified Rejected or Ignorable appends no row to trades;
\* its only audit effect is one webhook_log row carrying its status code,
\* 400 for Rejected and 200 for Ignorable.
C16_NoTradeRowUnlessPlaced ==
    \A d \in Deliveries :
        LET kind == Classify(payload[d]).kind
            code == IF kind = "rejected" THEN 400 ELSE 200
        IN (payload[d] # NoDelivery /\ kind \in {"ignorable", "rejected"}) =>
               /\ trades[d] = <<>>
               /\ exch[d] = <<>>
               /\ Len(webhook_log[d]) <= 1
               /\ pc[d] # "returned" => webhook_log[d] = <<>>
               /\ pc[d] = "returned" =>
                      /\ Len(webhook_log[d]) = 1
                      /\ webhook_log[d][1].status_code = code
                      /\ resp[d].status = code

\* C16 witness: a BUY with an invalid quantity has been answered, with its
\* one webhook_log row and no trades row.
C16_Witness ==
    \E d \in Deliveries :
        /\ pc[d] = "returned"
        /\ Classify(payload[d]).kind = "rejected"
        /\ payload[d].qty = Num(-1)
        /\ webhook_log[d] = <<[json |-> "data", status_code |-> 400]>>
        /\ trades[d] = <<>>

\* The terminal states of an order attempt, read off the exchange's answers
\* and the returned result
AttemptConfirmed(d) ==
    /\ Len(exch[d]) = 1 /\ exch[d][1].raised = <<>>
    /\ res[d].ok /\ res[d].note = ""

AttemptRecovered(d) ==
    /\ RecoveredCase(d)
    /\ res[d].ok /\ res[d].note = "Recovered after parse error"

AttemptRecoveryFailed(d) == RecoveryFailedCase(d) /\ ~res[d].ok

AttemptRejected(d) ==
    /\ Len(exch[d]) = 1
    /\ exch[d][1].raised # <<>> /\ ~CarriesSignature(exch[d][1].raised)
    /\ ~res[d].ok

TerminalStates(d) ==
    {x \in {"Confirmed", "RecoveredConfirmed", "RecoveryFailed", "Rejected"} :
        \/ x = "Confirmed" /\ AttemptConfirmed(d)
        \/ x = "RecoveredConfirmed" /\ AttemptRecovered(d)
        \/ x = "RecoveryFailed" /\ AttemptRecoveryFailed(d)
        \/ x = "Rejected" /\ AttemptRejected(d)}

\* C17: place_market_order_with_fallback always returns a result: while it
\* runs, the exchange's next answer (a return or any exception) takes it on,
\* after at most one submission and one lookup; once it is left, the attempt
\* is in exactly one of Confirmed, RecoveredConfirmed, RecoveryFailed and
\* Rejected, the result carries the correlation id, and no exception of the
\* exchange has reached the handler.
C17_AttemptAlwaysTerminates ==
    \A d \in Deliveries :
        PlaceCalled(d) =>
            /\ pc[d] = "submit" =>
                   /\ exch[d] = <<>>
                   /\ ENABLED SubmitReturns(d)
                   /\ ENABLED SubmitRaises(d)
            /\ pc[d] = "lookup" =>
                   /\ Len(exch[d]) = 1
                   /\ ENABLED LookupReturns(d)
                   /\ ENABLED LookupRaises(d)
            /\ PlaceReturned(d) =>
                   /\ Cardinality(TerminalStates(d)) = 1
                   /\ res[d].client_id = client_id[d]
                   /\ res[d].client_id \in ClientIds
                   /\ exc[d] \in {<<>>, DbError}

\* C17 witness: all four terminal states are reached; this one is
\* RecoveryFailed, answered.
C17_Witness ==
    \E d \in Deliveries :
        pc[d] = "returned" /\ TerminalStates(d) = {"RecoveryFailed"}

\* Deliveries whose handler has made its new_order call
Submitted == {d \in Deliveries : Submissions(d) > 0}

\* Deliveries that reached placement and whose submission has been answered
PastSubmission == {d \in Deliveries : PlaceCalled(d) /\ pc[d] # "submit"}

\* C18: nothing de-duplicates or serialises deliveries. Every delivery that
\* reached placement makes its own single submission, so the submissions
\* number what the deliveries past placement number, whatever the other
\* delivery brings or does; and a delivery is never held back by another: in
\* every state each delivery that arrived can enter its handler, whatever it
\* classifies as, and each delivery under way can take its next step.
C18_NoDeduplicationNoLocking ==
    /\ Submitted = PastSubmission
    /\ \A d \in Deliveries :
           /\ Submissions(d) = (IF d \in PastSubmission THEN 1 ELSE 0)
           /\ (pc[d] = "idle" /\ payload[d] # NoDelivery) =>
                  /\ Arrived(d)
                  /\ Classify(payload[d]).kind \in
                         {"ignorable", "rejected", "fault", "actionable"}
           /\ pc[d] = "submit" => ENABLED SubmitReturns(d)
           /\ pc[d] = "lookup" => ENABLED LookupReturns(d)
           /\ pc[d] = "log_trade" => ENABLED LogTrade(d)
           /\ pc[d] = "log_hit" => ENABLED LogHit(d)
           /\ pc[d] = "fault" => ENABLED FaultLogHit(d)

\* C18 witness: the same alert delivered twice, both handlers between their
\* own accepted new_order call and the audit row: two orders for one symbol.
C18_Witness ==
    /\ payload["d1"] = payload["d2"]
    /\ \A d \in Deliveries :
           /\ pc[d] = "log_trade"
           /\ sig[d].action = BUY /\ sig[d].symbol = BTCUSDT
           /\ Len(exch[d]) = 1
           /\ IsNewOrder(exch[d][1]) /\ exch[d][1].raised = <<>>
           /\ exch[d][1].symbol = BTCUSDT

\* One row of webhook_log, carrying the status the caller was given
OneHitRow(d) ==
    /\ Len(webhook_log[d]) = 1
    /\ webhook_log[d][1].status_code = resp[d].status
    /\ resp[d].status \in {200, 400, 502}

\* A step that appends the trade row of d comes after the exchange
\* interaction and before the webhook row; the webhook row is the last write.
RowsInOrder(d) ==
    /\ trades'[d] # trades[d] =>
           /\ PlaceReturned(d) /\ Len(exch[d]) >= 1 /\ exch'[d] = exch[d]
           /\ webhook_log[d] = <<>> /\ webhook_log'[d] = <<>>
    /\ exch'[d] # exch[d] => (trades[d] = <<>> /\ webhook_log[d] = <<>>)
    /\ webhook_log'[d] # webhook_log[d] =>
           /\ pc'[d] = "returned"
           /\ trades'[d] = trades[d] /\ exch'[d] = exch[d]

\* C19: a delivery that _handle_tv answered has exactly one webhook_log row,
\* whose status_code is the HTTP status returned (200, 400 or 502), on every
\* path, the except branch included; before the answer there is no row. The
\* trade row, when there is one, is appended after the exchange calls and
\* before the webhook row.
C19_OneHitRowPerAnswer ==
    /\ [](\A d \in Deliveries :
              /\ pc[d] = "returned" => OneHitRow(d)
              /\ pc[d] # "returned" => webhook_log[d] = <<>>
              /\ Len(trades[d]) <= 1)
    /\ [][\A d \in Deliveries : RowsInOrder(d)]_vars

\* C19 witness: the order was placed and its trade row written, the INSERT of
\* line 294 failed, and the except branch wrote the one webhook row, 400.
C19_Witness ==
    \E d \in Deliveries :
        /\ pc[d] = "returned"
        /\ Len(trades[d]) = 1 /\ res[d].ok
        /\ exc[d] = DbError
        /\ webhook_log[d] = <<[json |-> "error", status_code |-> 400]>>
        /\ resp[d].status = 400

\* C20: one correlation id per attempt. The id drawn when place is entered is
\* the newClientOrderId of the submission, the origClientOrderId of the
\* lookup, the client_id of the result on every outcome, the id of the order
\* the result carries, the client_id of the trade row, and the client_id of
\* a success response.
C20_OneCorrelationId ==
    \A d \in Deliveries :
        PlaceCalled(d) =>
            /\ client_id[d] \in ClientIds
            /\ \A i \in 1..Len(exch[d]) : exch[d][i].clientOrderId = client_id[d]
            /\ PlaceReturned(d) =>
                   /\ res[d].client_id = client_id[d]
                   /\ res[d].ok => res[d].order.clientOrderId = client_id[d]
            /\ \A i \in 1..Len(trades[d]) : trades[d][i].client_id = client_id[d]
            /\ (pc[d] = "returned" /\ resp[d].status = 200) =>
                   /\ resp[d].body.success
                   /\ resp[d].body.client_id = client_id[d]
                   /\ resp[d].body.order.clientOrderId = client_id[d]

\* C20 witness: a recovered attempt, answered: submission, lookup, result,
\* trade row and response all carry the one id.
C20_Witness ==
    \E d \in Deliveries :
        /\ pc[d] = "returned" /\ resp[d].status = 200
        /\ RecoveredCase(d)
        /\ exch[d][2].clientOrderId = exch[d][1].clientOrderId
        /\ trades[d][1].client_id = exch[d][1].clientOrderId
        /\ resp[d].body.client_id = exch[d][1].clientOrderId

====
